---- MODULE Spec2Model ----
(***************************************************************************)
(* Smart Bookmark Manager: the bookmark service (list / create / delete   *)
(* over a prefix-scannable key-value store) and the browser session that  *)
(* keeps a local bookmark list in step with it.                            *)
(*                                                                         *)
(* Strings that the code concatenates or matches (storage keys, prefixes,  *)
(* user ids, bookmark ids) are sequences of characters, so that key        *)
(* construction and prefix matching are computed, not assumed.             *)
(***************************************************************************)
EXTENDS Integers, Sequences, FiniteSets, TLC

\* ------------------------------------------------------------------ bounds
MaxBookmarks == 2     \* creates the store accepts in one run
MaxCalls == 2         \* add and delete clicks, over all sessions, in one run

\* ------------------------------------------------------------ value domains
UNDEF == "<undefined>"            \* JavaScript undefined (a missing field)
NoId == <<>>                      \* the empty string, as an id

UserA == <<"A">>
UserB == <<"B">>
Users == {UserA, UserB}           \* ids the identity provider issues (no ':')

\* the identity provider's sessions: credential -> user id
TokenTable == {[token |-> "tokA", id |-> UserA], [token |-> "tokB", id |-> UserB]}
TokenOf(u) == (CHOOSE r \in TokenTable : r.id = u).token

\* crypto.randomUUID(): the n-th identifier drawn; distinct draws differ
Uuid(n) == <<ToString(n)>>
Uuids == {Uuid(n) : n \in 1..MaxBookmarks}

\* Authorization header values, as the words separated by single spaces;
\* <<>> is the absent header
Headers ==
  {<<>>, <<"Bearer">>, <<"Bearer", "bad">>}
    \cup {<<"Bearer", r.token>> : r \in TokenTable}

\* :id path parameters a client can send: real ids, and crafted ones
PathIds == Uuids \cup {u \o <<":">> \o Uuid(1) : u \in Users}

\* request bodies of POST /bookmarks
FieldVals == {UNDEF, "", "x"}
\* (id and userId are fields the service never asks for; NoId = not sent)
JsonBodies ==
  [kind : {"object"}, url : FieldVals, title : FieldVals, id : {NoId}, userId : {NoId}]
    \cup {[kind |-> "object", url |-> "x", title |-> "x", id |-> Uuid(1), userId |-> u] :
            u \in Users}
MalformedBody ==
  [kind |-> "malformed", url |-> UNDEF, title |-> UNDEF, id |-> NoId, userId |-> NoId]
Bodies == JsonBodies \cup {MalformedBody}

\* ------------------------------------------------------------------ strings
StartsWith(s, p) == Len(s) >= Len(p) /\ SubSeq(s, 1, Len(p)) = p

\* (variant: only a missing field counts, the empty string passes)
FalsyMissingOnly(v) == v = UNDEF

\* !v for the values a body field can take
Falsy(v) == v = UNDEF \/ v = ""

\* ------------------------------------------------------------------- state
VARIABLES
  store,      \* the key-value table: storage key -> bookmark record
  nextId,     \* how many identifiers crypto.randomUUID() has handed out, plus one
  now,        \* the server clock, read by new Date(): later creates read later times
  resp,       \* the last exchange of the service with a directly driven HTTP client
  live,       \* history: per user, the bookmarks created by and not since deleted by that user
  stage,      \* per session: "loading" (no session yet), "in", "out" (signed out)
  user,       \* per session: the user state (its id; NoId = null)
  accessToken,    \* per session: the accessToken state (UNDEF = null)
  bookmarks,  \* per session: the bookmarks state, a list
  channel,    \* per session: the channel state (its topic; NoChannel = null)
  subscribed, \* per session: its realtime channel is joined at the transport
  cleanupChannel, \* per session: the channel the pending effect cleanup closed over
  fetchReq,   \* per session: the fetchBookmarks call in flight
  opReq,      \* per session: the handleAddBookmark / handleDeleteBookmark call in flight
  inbox,      \* per session: Sync Events published to its channel, not yet handled
  calls       \* how many add and delete clicks the sessions have made

serverVars == <<store, nextId, now, resp, live>>
clientVars ==
  <<stage, user, accessToken, bookmarks, channel, subscribed,
    cleanupChannel, fetchReq, opReq, inbox, calls>>

\* --------------------------------------------------- key-value store adapter
EmptyStore == [k \in {} |-> k]

kvSet(st, key, value) ==
  [k \in DOMAIN st \cup {key} |-> IF k = key THEN value ELSE st[k]]

kvDel(st, key) == [k \in DOMAIN st \ {key} |-> st[k]]

\* the arrays getByPrefix may return: every ordering of the matching pairs
kvGetByPrefix(st, prefix) ==
  LET keys == {k \in DOMAIN st : StartsWith(k, prefix)}
      n == Cardinality(keys)
  IN {[i \in 1..n |-> [key |-> f[i], value |-> st[f[i]]]] :
        f \in {g \in [1..n -> keys] : \A k \in keys : \E i \in 1..n : g[i] = k}}

\* String(error) of a store failure and of a body that is not JSON
KvFailure == "Error: kv store failure"
JsonFailure == "SyntaxError: Unexpected token in JSON"

\* ---------------------------------------------------------- bookmark service
NoBookmark ==
  [id |-> NoId, url |-> UNDEF, title |-> UNDEF, userId |-> NoId, createdAt |-> 0 - 1]
NoBody ==
  [kind |-> "none", url |-> UNDEF, title |-> UNDEF, id |-> NoId, userId |-> NoId]

\* c.req.header('Authorization')?.split(' ')[1]
AccessToken(hdr) == IF Len(hdr) >= 2 THEN hdr[2] ELSE UNDEF

\* supabase.auth.getUser(accessToken): the user of a live credential, or an error
getUser(token) ==
  IF \E r \in TokenTable : r.token = token
    THEN [id |-> (CHOOSE r \in TokenTable : r.token = token).id, error |-> FALSE]
    ELSE [id |-> NoId, error |-> TRUE]

\* (variant: the result of the identity provider is not looked at)
AuthFailedNever(auth) == FALSE

\* authError || !user?.id
AuthFailed(auth) == auth.error \/ auth.id = NoId

\* (variants: a prefix that leaves the user out; a delete key built from the
\* path parameter alone; a delete that keeps the key it was given)
ListPrefixAllUsers(userId) == <<"bookmarks:">>
DeleteKeyFromPath(userId, bookmarkId) == <<"bookmarks:">> \o bookmarkId

\* (variant: the key POST writes names the user only)
BookmarkKeyPerUser(userId, bookmarkId) == <<"bookmarks:">> \o userId \o <<":">>

\* the key POST writes, the prefix GET scans and the key DELETE removes
BookmarkKey(userId, bookmarkId) == <<"bookmarks:">> \o userId \o <<":">> \o bookmarkId
ListPrefix(userId) == <<"bookmarks:">> \o userId \o <<":">>
DeleteKey(userId, bookmarkId) == <<"bookmarks:">> \o userId \o <<":">> \o bookmarkId

\* (variant: id and userId are taken from the body when the client sent them)
NewBookmarkFromBody(body, userId, bookmarkId, createdAt) ==
  [id |-> IF body.id # NoId THEN body.id ELSE bookmarkId,
   url |-> body.url, title |-> body.title,
   userId |-> IF body.userId # NoId THEN body.userId ELSE userId,
   createdAt |-> createdAt]

\* the bookmark object POST builds
NewBookmark(body, userId, bookmarkId, createdAt) ==
  [id |-> bookmarkId, url |-> body.url, title |-> body.title, userId |-> userId,
   createdAt |-> createdAt]

\* c.json(...) bodies; has = the fields present in the JSON
JsonReply(has, error, details, list, bookmark, success) ==
  [has |-> has, error |-> error, details |-> details, bookmarks |-> list,
   bookmark |-> bookmark, success |-> success]
ErrorReply(error) == JsonReply({"error"}, error, UNDEF, <<>>, NoBookmark, FALSE)
FailureReply(error, details) ==
  JsonReply({"error", "details"}, error, details, <<>>, NoBookmark, FALSE)

\* what one run of a handler does: the response, the store it leaves, the
\* key-value calls it made and what it wrote to the console
Outcome(status, body, st, kvOps, log) ==
  [status |-> status, body |-> body, store |-> st, kvOps |-> kvOps, log |-> log]

NoToken(hdr) == Outcome(401, ErrorReply("No access token provided"), store, <<>>, <<>>)
Unauthorized(what) ==
  Outcome(401, ErrorReply("Unauthorized"), store, <<>>, <<what>>)

\* GET /bookmarks
GetBookmarks(hdr) ==
  LET token == AccessToken(hdr)
      auth == getUser(token)
  IN IF Falsy(token) THEN {NoToken(hdr)}
     ELSE IF AuthFailed(auth)
       THEN {Unauthorized("Authorization error while getting bookmarks")}
     ELSE
       {Outcome(200,
                JsonReply({"bookmarks"}, UNDEF, UNDEF,
                          [i \in 1..Len(pairs) |-> pairs[i].value],
                          NoBookmark, FALSE),
                store, <<"getByPrefix">>, <<>>) :
          pairs \in kvGetByPrefix(store, ListPrefix(auth.id))}
       \cup
       {Outcome(500, FailureReply("Failed to fetch bookmarks", KvFailure),
                store, <<"getByPrefix">>, <<KvFailure>>)}

\* POST /bookmarks
PostBookmarks(hdr, body) ==
  LET token == AccessToken(hdr)
      auth == getUser(token)
      bookmarkId == Uuid(nextId)
      bookmark == NewBookmark(body, auth.id, bookmarkId, now)
  IN IF Falsy(token) THEN {NoToken(hdr)}
     ELSE IF AuthFailed(auth)
       THEN {Unauthorized("Authorization error while adding bookmark")}
     ELSE IF body.kind # "object"
       THEN {Outcome(500, FailureReply("Failed to add bookmark", JsonFailure),
                     store, <<>>, <<JsonFailure>>)}
     ELSE IF Falsy(body.url) \/ Falsy(body.title)
       THEN {Outcome(400, ErrorReply("URL and title are required"), store, <<>>, <<>>)}
     ELSE
       {Outcome(200, JsonReply({"bookmark"}, UNDEF, UNDEF, <<>>, bookmark, FALSE),
                kvSet(store, BookmarkKey(auth.id, bookmarkId), bookmark),
                <<"set">>, <<>>),
        Outcome(500, FailureReply("Failed to add bookmark", KvFailure),
                store, <<"set">>, <<KvFailure>>)}

\* (variant: a Delete of a key that is not in the store is answered 404)
DeleteBookmarkNotFound(hdr, bookmarkId) ==
  LET token == AccessToken(hdr)
      auth == getUser(token)
  IN IF Falsy(token) THEN {NoToken(hdr)}
     ELSE IF AuthFailed(auth)
       THEN {Unauthorized("Authorization error while deleting bookmark")}
     ELSE IF DeleteKey(auth.id, bookmarkId) \notin DOMAIN store
       THEN {Outcome(404, ErrorReply("Bookmark not found"), store, <<"get">>, <<>>)}
     ELSE
       {Outcome(200, JsonReply({"success"}, UNDEF, UNDEF, <<>>, NoBookmark, TRUE),
                kvDel(store, DeleteKey(auth.id, bookmarkId)), <<"del">>, <<>>)}

\* DELETE /bookmarks/:id
DeleteBookmark(hdr, bookmarkId) ==
  LET token == AccessToken(hdr)
      auth == getUser(token)
  IN IF Falsy(token) THEN {NoToken(hdr)}
     ELSE IF AuthFailed(auth)
       THEN {Unauthorized("Authorization error while deleting bookmark")}
     ELSE
       {Outcome(200, JsonReply({"success"}, UNDEF, UNDEF, <<>>, NoBookmark, TRUE),
                kvDel(store, DeleteKey(auth.id, bookmarkId)), <<"del">>, <<>>),
        Outcome(500, FailureReply("Failed to delete bookmark", KvFailure),
                store, <<"del">>, <<KvFailure>>)}

\* the history of confirmed creates and deletes, per authenticated caller
LiveAfter(route, hdr, bookmarkId, out) ==
  LET u == getUser(AccessToken(hdr)).id IN
  IF out.status # 200 \/ route = "list" THEN live
  ELSE IF route = "create"
    THEN [live EXCEPT ![u] = @ \cup {out.body.bookmark}]
  ELSE [live EXCEPT ![u] = {b \in @ : b.id # bookmarkId}]

\* one request served: the store, the id counter, the clock and the history
Serve(route, hdr, bookmarkId, out) ==
  /\ (route = "create" /\ out.status = 200) => nextId <= MaxBookmarks
  /\ store' = out.store
  /\ nextId' = IF route = "create" /\ out.status = 200 THEN nextId + 1 ELSE nextId
  /\ now' = IF route = "create" /\ out.status = 200 THEN now + 1 ELSE now
  /\ live' = LiveAfter(route, hdr, bookmarkId, out)

\* the exchange, as the HTTP client that made the request sees it
\* (again: the exchange before it was the same request, and both succeeded)
Exchange(route, hdr, bookmarkId, body, out) ==
  /\ Serve(route, hdr, bookmarkId, out)
  /\ resp' = [route |-> route, hdr |-> hdr, id |-> bookmarkId, body |-> body,
              status |-> out.status, reply |-> out.body, kvOps |-> out.kvOps,
              log |-> out.log,
              again |-> /\ resp.status = 200 /\ out.status = 200
                        /\ resp.route = route /\ resp.hdr = hdr /\ resp.id = bookmarkId]

NoExchange ==
  [route |-> "none", hdr |-> <<>>, id |-> NoId, body |-> NoBody, status |-> 0,
   reply |-> ErrorReply(UNDEF), kvOps |-> <<>>, log |-> <<>>, again |-> FALSE]

\* ------------------------------------------- the service under any HTTP client
ApiList == \E hdr \in Headers : \E out \in GetBookmarks(hdr) :
  Exchange("list", hdr, NoId, NoBody, out) /\ UNCHANGED clientVars

ApiCreate == \E hdr \in Headers, body \in Bodies : \E out \in PostBookmarks(hdr, body) :
  Exchange("create", hdr, NoId, body, out) /\ UNCHANGED clientVars

ApiDelete == \E hdr \in Headers, bookmarkId \in PathIds :
  \E out \in DeleteBookmark(hdr, bookmarkId) :
    Exchange("delete", hdr, bookmarkId, NoBody, out) /\ UNCHANGED clientVars

InitServer ==
  /\ store = EmptyStore
  /\ nextId = 1
  /\ now = 0
  /\ resp = NoExchange
  /\ live = [u \in Users |-> {}]

\* ------------------------------------------------------------ browser session
\* the open tabs, and the user whose sign-in each tab's browser holds
Sessions == {"s1", "s2"}
SessionUser(s) == UserA
\* the tabs in which Sign Out is clicked in a run
SignOutSessions == {"s1"}

NoChannel == <<>>
\* supabase.channel(`bookmarks:${user.id}`)
ChannelTopic(userId) == <<"bookmarks:">> \o userId

\* a call in flight: what its closure captured when it was made, and the
\* response once the service has answered
NoRequest ==
  [kind |-> "none", state |-> "none", accessToken |-> UNDEF, bookmarks |-> <<>>,
   user |-> NoId, channel |-> NoChannel, id |-> NoId, status |-> 0,
   reply |-> ErrorReply(UNDEF)]
Call(s, kind, id) ==
  [kind |-> kind, state |-> "sent", accessToken |-> accessToken[s],
   bookmarks |-> bookmarks[s], user |-> user[s], channel |-> channel[s], id |-> id,
   status |-> 0, reply |-> ErrorReply(UNDEF)]

\* 'Authorization': `Bearer ${accessToken}`
BearerHeader(token) == <<"Bearer", token>>
\* JSON.stringify({ url, title })
AddBody(url, title) ==
  [kind |-> "object", url |-> url, title |-> title, id |-> NoId, userId |-> NoId]

\* BookmarkEvent
AddedEvent(bookmark, userId) ==
  [type |-> "added", bookmark |-> bookmark, bookmarkId |-> NoId, userId |-> userId]
DeletedEvent(bookmarkId, userId) ==
  [type |-> "deleted", bookmark |-> NoBookmark, bookmarkId |-> bookmarkId,
   userId |-> userId]

Ids(list) == {list[i].id : i \in 1..Len(list)}
\* prev.filter(b => b.id !== id)
RECURSIVE Without(_, _)
Without(list, id) ==
  IF list = <<>> THEN <<>>
  ELSE IF Head(list).id = id THEN Without(Tail(list), id)
  ELSE <<Head(list)>> \o Without(Tail(list), id)

InitClient ==
  /\ stage = [s \in Sessions |-> "loading"]
  /\ user = [s \in Sessions |-> NoId]
  /\ accessToken = [s \in Sessions |-> UNDEF]
  /\ bookmarks = [s \in Sessions |-> <<>>]
  /\ channel = [s \in Sessions |-> NoChannel]
  /\ subscribed = [s \in Sessions |-> FALSE]
  /\ cleanupChannel = [s \in Sessions |-> NoChannel]
  /\ fetchReq = [s \in Sessions |-> NoRequest]
  /\ opReq = [s \in Sessions |-> NoRequest]
  /\ inbox = [s \in Sessions |-> {}]
  /\ calls = 0

\* checkSession, and the [user, accessToken] effect that follows it: without a
\* session nothing changes (the sign-in page stays); with one, the effect
\* starts fetchBookmarks and opens the subscription, and its cleanup closes
\* over the channel state of the render that ran the effect
CheckSession(s) ==
  /\ stage[s] = "loading"
  /\ \E found \in BOOLEAN :
       IF found
         THEN /\ stage' = [stage EXCEPT ![s] = "in"]
              /\ user' = [user EXCEPT ![s] = SessionUser(s)]
              /\ accessToken' = [accessToken EXCEPT ![s] = TokenOf(SessionUser(s))]
              /\ cleanupChannel' = [cleanupChannel EXCEPT ![s] = channel[s]]
              /\ fetchReq' =
                   [fetchReq EXCEPT ![s] =
                      [Call(s, "list", NoId) EXCEPT
                         !.accessToken = TokenOf(SessionUser(s)),
                         !.user = SessionUser(s)]]
              /\ channel' = [channel EXCEPT ![s] = ChannelTopic(SessionUser(s))]
              /\ subscribed' = [subscribed EXCEPT ![s] = TRUE]
         ELSE UNCHANGED <<stage, user, accessToken, cleanupChannel, fetchReq,
                          channel, subscribed>>
  /\ UNCHANGED <<bookmarks, opReq, inbox, calls>>
  /\ UNCHANGED serverVars

\* what the cleanup of the [user, accessToken] effect does with the channel it
\* closed over: if (channel) channel.unsubscribe()
CleanupUnsubscribes(closedOver) == closedOver # NoChannel

\* handleSignOut: on success the three states are reset and the effect is
\* re-run. Rendered together, the cleanup that runs is the one of the sign-in
\* render; rendered one by one (setUser, then setAccessToken), the cleanup of
\* the first re-render, which closed over the current channel, runs as well.
handleSignOut(s) ==
  /\ s \in SignOutSessions
  /\ stage[s] = "in"
  /\ \E error \in BOOLEAN, autoBatching \in BOOLEAN :
       IF error
         THEN UNCHANGED <<stage, user, accessToken, bookmarks, subscribed,
                          cleanupChannel, inbox>>
         ELSE LET released ==
                    \/ CleanupUnsubscribes(cleanupChannel[s])
                    \/ ~autoBatching /\ CleanupUnsubscribes(channel[s])
              IN /\ stage' = [stage EXCEPT ![s] = "out"]
                 /\ user' = [user EXCEPT ![s] = NoId]
                 /\ accessToken' = [accessToken EXCEPT ![s] = UNDEF]
                 /\ bookmarks' = [bookmarks EXCEPT ![s] = <<>>]
                 /\ cleanupChannel' = [cleanupChannel EXCEPT ![s] = channel[s]]
                 /\ subscribed' =
                      [subscribed EXCEPT ![s] = IF released THEN FALSE ELSE @]
                 /\ inbox' = [inbox EXCEPT ![s] = IF released THEN {} ELSE @]
  /\ UNCHANGED <<channel, fetchReq, opReq, calls>>
  /\ UNCHANGED serverVars

\* handleAddBookmark up to its fetch: the dialog submits a url and a title
handleAddBookmark(s) ==
  /\ stage[s] = "in"
  /\ accessToken[s] # UNDEF
  /\ opReq[s].kind = "none"
  /\ calls < MaxCalls
  /\ calls' = calls + 1
  /\ opReq' = [opReq EXCEPT ![s] = Call(s, "create", NoId)]
  /\ UNCHANGED <<stage, user, accessToken, bookmarks, channel,
                 subscribed, cleanupChannel, fetchReq, inbox>>
  /\ UNCHANGED serverVars

\* handleDeleteBookmark up to its fetch: the card of a listed bookmark is clicked
handleDeleteBookmark(s) ==
  /\ stage[s] = "in"
  /\ accessToken[s] # UNDEF
  /\ opReq[s].kind = "none"
  /\ calls < MaxCalls
  /\ calls' = calls + 1
  /\ \E id \in Ids(bookmarks[s]) :
       opReq' = [opReq EXCEPT ![s] = Call(s, "delete", id)]
  /\ UNCHANGED <<stage, user, accessToken, bookmarks, channel,
                 subscribed, cleanupChannel, fetchReq, inbox>>
  /\ UNCHANGED serverVars

\* the service answers a session's call
Answered(req, out) == [req EXCEPT !.state = "answered", !.status = out.status,
                                  !.reply = out.body]

ServeFetch(s) ==
  /\ fetchReq[s].state = "sent"
  /\ \E out \in GetBookmarks(BearerHeader(fetchReq[s].accessToken)) :
       /\ Serve("list", BearerHeader(fetchReq[s].accessToken), NoId, out)
       /\ fetchReq' = [fetchReq EXCEPT ![s] = Answered(@, out)]
  /\ UNCHANGED <<resp, stage, user, accessToken, bookmarks, channel,
                 subscribed, cleanupChannel, opReq, inbox, calls>>

ServeAdd(s) ==
  /\ opReq[s].state = "sent" /\ opReq[s].kind = "create"
  /\ \E out \in PostBookmarks(BearerHeader(opReq[s].accessToken), AddBody("x", "x")) :
       /\ Serve("create", BearerHeader(opReq[s].accessToken), NoId, out)
       /\ opReq' = [opReq EXCEPT ![s] = Answered(@, out)]
  /\ UNCHANGED <<resp, stage, user, accessToken, bookmarks, channel,
                 subscribed, cleanupChannel, fetchReq, inbox, calls>>

ServeDelete(s) ==
  /\ opReq[s].state = "sent" /\ opReq[s].kind = "delete"
  /\ \E out \in DeleteBookmark(BearerHeader(opReq[s].accessToken), opReq[s].id) :
       /\ Serve("delete", BearerHeader(opReq[s].accessToken), opReq[s].id, out)
       /\ opReq' = [opReq EXCEPT ![s] = Answered(@, out)]
  /\ UNCHANGED <<resp, stage, user, accessToken, bookmarks, channel,
                 subscribed, cleanupChannel, fetchReq, inbox, calls>>

\* fetch() rejects (the network fails, before or after the service acted): the
\* catch block reports it
FetchThrows(s) ==
  /\ fetchReq[s].kind # "none"
  /\ fetchReq' = [fetchReq EXCEPT ![s] = NoRequest]
  /\ UNCHANGED <<stage, user, accessToken, bookmarks, channel,
                 subscribed, cleanupChannel, opReq, inbox, calls>>
  /\ UNCHANGED serverVars

OpThrows(s) ==
  /\ opReq[s].kind # "none"
  /\ opReq' = [opReq EXCEPT ![s] = NoRequest]
  /\ UNCHANGED <<stage, user, accessToken, bookmarks, channel,
                 subscribed, cleanupChannel, fetchReq, inbox, calls>>
  /\ UNCHANGED serverVars

\* fetchBookmarks without its response.ok check: an error body has no bookmarks
FetchDoneNoOkCheck(s) ==
  /\ fetchReq[s].state = "answered"
  /\ bookmarks' =
       [bookmarks EXCEPT ![s] =
          IF fetchReq[s].status = 200 THEN fetchReq[s].reply.bookmarks ELSE <<>>]
  /\ fetchReq' = [fetchReq EXCEPT ![s] = NoRequest]
  /\ UNCHANGED <<stage, user, accessToken, channel, subscribed,
                 cleanupChannel, opReq, inbox, calls>>
  /\ UNCHANGED serverVars

\* fetchBookmarks after its await: setBookmarks(data.bookmarks || [])
FetchDone(s) ==
  /\ fetchReq[s].state = "answered"
  /\ bookmarks' =
       [bookmarks EXCEPT ![s] =
          IF fetchReq[s].status = 200 THEN fetchReq[s].reply.bookmarks ELSE @]
  /\ fetchReq' = [fetchReq EXCEPT ![s] = NoRequest]
  /\ UNCHANGED <<stage, user, accessToken, channel, subscribed,
                 cleanupChannel, opReq, inbox, calls>>
  /\ UNCHANGED serverVars

\* broadcastBookmarkChange of a call: nothing without a channel or a user in
\* the closure; otherwise channel.send hands the event to every other session
\* joined to the topic (the sender does not receive its own broadcast)
Broadcast(s, req, event) ==
  IF req.channel = NoChannel \/ req.user = NoId
    THEN inbox
    ELSE [t \in Sessions |->
            IF t # s /\ subscribed[t] /\ channel[t] = req.channel
              THEN inbox[t] \cup {event} ELSE inbox[t]]

\* handleAddBookmark after its await, broadcasting without the setBookmarks
AddDoneSendsOnly(s) ==
  /\ opReq[s].state = "answered" /\ opReq[s].kind = "create"
  /\ IF opReq[s].status = 200
       THEN /\ inbox' = Broadcast(s, opReq[s],
                                  AddedEvent(opReq[s].reply.bookmark, opReq[s].user))
            /\ UNCHANGED bookmarks
       ELSE UNCHANGED <<bookmarks, inbox>>
  /\ opReq' = [opReq EXCEPT ![s] = NoRequest]
  /\ UNCHANGED <<stage, user, accessToken, channel, subscribed,
                 cleanupChannel, fetchReq, calls>>
  /\ UNCHANGED serverVars

\* handleAddBookmark after its await: setBookmarks([data.bookmark, ...bookmarks])
\* with the list of the closure, then the broadcast
AddDone(s) ==
  /\ opReq[s].state = "answered" /\ opReq[s].kind = "create"
  /\ IF opReq[s].status = 200
       THEN /\ bookmarks' =
                 [bookmarks EXCEPT ![s] = <<opReq[s].reply.bookmark>> \o opReq[s].bookmarks]
            /\ inbox' = Broadcast(s, opReq[s],
                                  AddedEvent(opReq[s].reply.bookmark, opReq[s].user))
       ELSE UNCHANGED <<bookmarks, inbox>>
  /\ opReq' = [opReq EXCEPT ![s] = NoRequest]
  /\ UNCHANGED <<stage, user, accessToken, channel, subscribed,
                 cleanupChannel, fetchReq, calls>>
  /\ UNCHANGED serverVars

\* handleDeleteBookmark after its await, without the broadcast
DeleteDoneSilent(s) ==
  /\ opReq[s].state = "answered" /\ opReq[s].kind = "delete"
  /\ IF opReq[s].status = 200
       THEN /\ bookmarks' =
                 [bookmarks EXCEPT ![s] = Without(opReq[s].bookmarks, opReq[s].id)]
            /\ UNCHANGED inbox
       ELSE UNCHANGED <<bookmarks, inbox>>
  /\ opReq' = [opReq EXCEPT ![s] = NoRequest]
  /\ UNCHANGED <<stage, user, accessToken, channel, subscribed,
                 cleanupChannel, fetchReq, calls>>
  /\ UNCHANGED serverVars

\* handleDeleteBookmark after its await: setBookmarks(bookmarks.filter(...))
\* with the list of the closure, then the broadcast
DeleteDone(s) ==
  /\ opReq[s].state = "answered" /\ opReq[s].kind = "delete"
  /\ IF opReq[s].status = 200
       THEN /\ bookmarks' =
                 [bookmarks EXCEPT ![s] = Without(opReq[s].bookmarks, opReq[s].id)]
            /\ inbox' = Broadcast(s, opReq[s], DeletedEvent(opReq[s].id, opReq[s].user))
       ELSE UNCHANGED <<bookmarks, inbox>>
  /\ opReq' = [opReq EXCEPT ![s] = NoRequest]
  /\ UNCHANGED <<stage, user, accessToken, channel, subscribed,
                 cleanupChannel, fetchReq, calls>>
  /\ UNCHANGED serverVars

\* the handler without its prev.some(...) check
OnBroadcastNoDedup(prev, event, subscriber) ==
  IF event.userId # subscriber THEN prev
  ELSE IF event.type = "added" /\ event.bookmark # NoBookmark
    THEN <<event.bookmark>> \o prev
  ELSE IF event.type = "deleted" /\ event.bookmarkId # NoId
    THEN Without(prev, event.bookmarkId)
  ELSE prev

\* the handler emptying the list on a Deleted event
OnBroadcastClears(prev, event, subscriber) ==
  IF event.userId # subscriber THEN prev
  ELSE IF event.type = "added" /\ event.bookmark # NoBookmark
    THEN IF event.bookmark.id \in Ids(prev) THEN prev ELSE <<event.bookmark>> \o prev
  ELSE IF event.type = "deleted" /\ event.bookmarkId # NoId
    THEN <<>>
  ELSE prev

\* the handler comparing the event's bookmark with the first list entry only
OnBroadcastChecksHead(prev, event, subscriber) ==
  IF event.userId # subscriber THEN prev
  ELSE IF event.type = "added" /\ event.bookmark # NoBookmark
    THEN IF prev # <<>> /\ Head(prev).id = event.bookmark.id
           THEN prev ELSE <<event.bookmark>> \o prev
  ELSE IF event.type = "deleted" /\ event.bookmarkId # NoId
    THEN Without(prev, event.bookmarkId)
  ELSE prev

\* the list after the 'bookmark-change' handler of a subscription has run on
\* an event; subscriber is the user the handler closed over
OnBroadcast(prev, event, subscriber) ==
  IF event.userId # subscriber THEN prev
  ELSE IF event.type = "added" /\ event.bookmark # NoBookmark
    THEN IF event.bookmark.id \in Ids(prev) THEN prev ELSE <<event.bookmark>> \o prev
  ELSE IF event.type = "deleted" /\ event.bookmarkId # NoId
    THEN Without(prev, event.bookmarkId)
  ELSE prev

\* a handler that reloads the list instead of applying the event
DeliverRefetches(s) ==
  /\ subscribed[s]
  /\ \E event \in inbox[s] :
       /\ fetchReq' = [fetchReq EXCEPT ![s] = Call(s, "list", NoId)]
       /\ inbox' = [inbox EXCEPT ![s] = @ \ {event}]
  /\ UNCHANGED <<stage, user, accessToken, bookmarks, channel, subscribed,
                 cleanupChannel, opReq, calls>>
  /\ UNCHANGED serverVars

\* the transport delivers an event to a joined channel
Deliver(s) ==
  /\ subscribed[s]
  /\ \E event \in inbox[s] :
       /\ bookmarks' =
            [bookmarks EXCEPT ![s] = OnBroadcast(@, event, SessionUser(s))]
       /\ inbox' = [inbox EXCEPT ![s] = @ \ {event}]
  /\ UNCHANGED <<stage, user, accessToken, channel, subscribed,
                 cleanupChannel, fetchReq, opReq, calls>>
  /\ UNCHANGED serverVars

\* the transport is best-effort: an event can be lost
Lose(s) ==
  /\ \E event \in inbox[s] : inbox' = [inbox EXCEPT ![s] = @ \ {event}]
  /\ UNCHANGED <<stage, user, accessToken, bookmarks, channel,
                 subscribed, cleanupChannel, fetchReq, opReq, calls>>
  /\ UNCHANGED serverVars

Init == InitServer /\ InitClient

vars ==
  <<store, nextId, now, resp, live, stage, user, accessToken,
    bookmarks, channel, subscribed, cleanupChannel, fetchReq, opReq, inbox, calls>>

\* the service under any HTTP client
NextApi == ApiList \/ ApiCreate \/ ApiDelete

SpecApi == Init /\ [][NextApi]_vars

\* the sessions and the service that answers them
Next ==
  \E s \in Sessions :
       \/ CheckSession(s)
       \/ handleSignOut(s)
       \/ handleAddBookmark(s)
       \/ handleDeleteBookmark(s)
       \/ ServeFetch(s)
       \/ ServeAdd(s)
       \/ ServeDelete(s)
       \/ FetchThrows(s)
       \/ OpThrows(s)
       \/ FetchDone(s)
       \/ AddDone(s)
       \/ DeleteDone(s)
       \/ Deliver(s)
       \/ Lose(s)

Spec == Init /\ [][Next]_vars

\* a later visit: the store already holds a bookmark that UserA saved in an
\* earlier one
Saved == NewBookmark(AddBody("x", "x"), UserA, Uuid(1), 0)
InitSaved ==
  /\ store = kvSet(EmptyStore, BookmarkKey(UserA, Saved.id), Saved)
  /\ nextId = 2
  /\ now = 1
  /\ resp = NoExchange
  /\ live = [u \in Users |-> IF u = UserA THEN {Saved} ELSE {}]
  /\ InitClient

\* the service answers a session's call with response.ok
ServeFetchOk(s) == ServeFetch(s) /\ fetchReq'[s].status = 200
ServeAddOk(s) == ServeAdd(s) /\ opReq'[s].status = 200
ServeDeleteOk(s) == ServeDelete(s) /\ opReq'[s].status = 200

\* the sessions in fair weather: nobody signs out, every call is answered with
\* response.ok, no fetch() rejects and the transport loses no event
NextSync ==
  \E s \in Sessions :
       \/ CheckSession(s)
       \/ handleAddBookmark(s)
       \/ handleDeleteBookmark(s)
       \/ ServeFetchOk(s)
       \/ ServeAddOk(s)
       \/ ServeDeleteOk(s)
       \/ FetchDone(s)
       \/ AddDone(s)
       \/ DeleteDone(s)
       \/ Deliver(s)

SpecSync == InitSaved /\ [][NextSync]_vars

\* the sessions while nobody signs out: calls fail, fetch() rejects and events
\* are lost as under Spec
NextSignedIn ==
  \E s \in Sessions :
       \/ CheckSession(s)
       \/ handleAddBookmark(s)
       \/ handleDeleteBookmark(s)
       \/ ServeFetch(s)
       \/ ServeAdd(s)
       \/ ServeDelete(s)
       \/ FetchThrows(s)
       \/ OpThrows(s)
       \/ FetchDone(s)
       \/ AddDone(s)
       \/ DeleteDone(s)
       \/ Deliver(s)
       \/ Lose(s)

SpecSignedIn == Init /\ [][NextSignedIn]_vars

\* the transport delivers an event that it will deliver again
Redeliver(s) ==
  /\ subscribed[s]
  /\ \E event \in inbox[s] :
       bookmarks' = [bookmarks EXCEPT ![s] = OnBroadcast(@, event, SessionUser(s))]
  /\ UNCHANGED <<stage, user, accessToken, channel, subscribed,
                 cleanupChannel, fetchReq, opReq, inbox, calls>>
  /\ UNCHANGED serverVars

\* the signed-in sessions over a transport that may also repeat events
NextRedeliver ==
  \/ NextSignedIn
  \/ \E s \in Sessions : Redeliver(s)

SpecRedeliver == Init /\ [][NextRedeliver]_vars

\* ================================================================== claims
\* the caller a request authenticates as (NoId: none), read off the identity
\* provider's table, and the records of the store as a set
CallerOf(hdr) ==
  IF \E r \in TokenTable : hdr = <<"Bearer", r.token>>
    THEN (CHOOSE r \in TokenTable : hdr = <<"Bearer", r.token>>).id
    ELSE NoId
Records(st) == {st[k] : k \in DOMAIN st}
Listed == {resp.reply.bookmarks[i] : i \in 1..Len(resp.reply.bookmarks)}
KeyOf(userId, bookmarkId) == <<"bookmarks:">> \o userId \o <<":">> \o bookmarkId

\* C1: a successful List by user U returns exactly the bookmarks U created and
\* has not since deleted, each once, and none that another user created.
C1_ListReturnsOwnLiveBookmarks ==
  (resp.route = "list" /\ resp.status = 200) =>
    /\ Listed = live[CallerOf(resp.hdr)]
    /\ Len(resp.reply.bookmarks) = Cardinality(live[CallerOf(resp.hdr)])
    /\ \A v \in Users \ {CallerOf(resp.hdr)} : Listed \cap live[v] = {}

\* a List succeeded while each of the two users holds a bookmark
C1_Witness ==
  /\ resp.route = "list" /\ resp.status = 200
  /\ \A u \in Users : live[u] # {}

\* C2: a Delete by user A leaves every record of every other user unchanged,
\* whatever id the path carries; the only key that can go is
\* bookmarks:{A}:{id}.
C2_DeleteLeavesOtherUsersRecords ==
  [][resp'.route = "delete" =>
       /\ \A k \in DOMAIN store :
            store[k].userId # CallerOf(resp'.hdr) =>
              k \in DOMAIN store' /\ store'[k] = store[k]
       /\ \A k \in DOMAIN store :
            k \notin DOMAIN store' => k = KeyOf(CallerOf(resp'.hdr), resp'.id)
       /\ DOMAIN store' \subseteq DOMAIN store]_vars

\* user A's Delete was confirmed for the id of a record of user B, or for the
\* crafted id "B:<id>", while B's record is in the store
C2_Witness ==
  /\ resp.route = "delete" /\ resp.status = 200 /\ CallerOf(resp.hdr) = UserA
  /\ \E b \in live[UserB] :
       /\ resp.id = UserB \o <<":">> \o b.id
       /\ KeyOf(UserB, b.id) \in DOMAIN store

\* C3: on every bookmark route a request without a valid credential is
\* answered 401, makes no call to the key-value store and leaves it as it was.
C3_UnauthorizedTouchesNothing ==
  [][(resp'.route \in {"list", "create", "delete"} /\ CallerOf(resp'.hdr) = NoId) =>
       /\ resp'.status = 401
       /\ resp'.kvOps = <<>>
       /\ store' = store]_vars

\* a request with a credential the identity provider rejects was answered
\* while the store holds records
C3_Witness ==
  /\ resp.route = "delete" /\ resp.hdr = <<"Bearer", "bad">> /\ resp.status = 401
  /\ resp.id \in {b.id : b \in Records(store)}

\* C4: a confirmed create returns and stores a bookmark whose userId is the
\* authenticated caller's id, whatever id or userId the body carried, with the
\* identifier the server drew and the server's time.
C4_CreatedBookmarkBelongsToCaller ==
  (resp.route = "create" /\ resp.status = 200) =>
    LET b == resp.reply.bookmark
        caller == CallerOf(resp.hdr)
    IN /\ caller \in Users
       /\ b.userId = caller
       /\ b.id = Uuid(nextId - 1)
       /\ b.createdAt = now - 1
       /\ KeyOf(caller, b.id) \in DOMAIN store
       /\ store[KeyOf(caller, b.id)] = b

\* user A's create carried userId B and an id of its own choosing
C4_Witness ==
  /\ resp.route = "create" /\ resp.status = 200 /\ CallerOf(resp.hdr) = UserA
  /\ resp.body.userId = UserB
  /\ resp.body.id # NoId /\ resp.body.id # resp.reply.bookmark.id

\* C5: Delete is idempotent: an authenticated Delete is confirmed with
\* {success: true} unless the store call itself fails, also for an id that is
\* not there; afterwards the caller has no record of that id, and a confirmed
\* Delete of an id that is not there leaves the store as it is.
C5_DeleteIdempotent ==
  [][(resp'.route = "delete" /\ CallerOf(resp'.hdr) # NoId) =>
       LET key == KeyOf(CallerOf(resp'.hdr), resp'.id) IN
       /\ resp'.status \in {200, 500}
       /\ resp'.status = 500 => (resp'.log = <<KvFailure>> /\ store' = store)
       /\ resp'.status = 200 =>
            /\ resp'.reply.has = {"success"} /\ resp'.reply.success
            /\ key \notin DOMAIN store'
            /\ key \notin DOMAIN store => store' = store]_vars

\* the same Delete was confirmed twice in a row, for an id that had been created
C5_Witness ==
  /\ resp.route = "delete" /\ resp.status = 200 /\ resp.again
  /\ \E n \in 1..(nextId - 1) : resp.id = Uuid(n)

\* C6: an authenticated create whose url or title is missing or empty is
\* answered 400 and writes nothing.
C6_MissingFieldRejected ==
  [][(/\ resp'.route = "create" /\ CallerOf(resp'.hdr) # NoId
      /\ resp'.body.kind = "object"
      /\ (resp'.body.url \in {UNDEF, ""} \/ resp'.body.title \in {UNDEF, ""})) =>
       /\ resp'.status = 400
       /\ resp'.kvOps = <<>>
       /\ store' = store]_vars

\* a create with title "" and a url was answered
C6_Witness ==
  /\ resp.route = "create" /\ CallerOf(resp.hdr) # NoId
  /\ resp.body.kind = "object" /\ resp.body.title = "" /\ resp.body.url = "x"
  /\ resp.status = 400

\* C7: an authenticated create whose body is not the expected JSON object is
\* answered 400, not an internal error, and stores nothing.
C7_MalformedBodyIsBadRequest ==
  (/\ resp.route = "create" /\ CallerOf(resp.hdr) # NoId
   /\ resp.body.kind = "malformed") =>
     (resp.status = 400 /\ resp.kvOps = <<>>)

\* C8: when a key-value call fails inside a handler, the caller gets a 500
\* that does not carry the failure's detail; the detail is in the log only.
C8_StorageFailureDetailNotExposed ==
  (resp.kvOps # <<>> /\ KvFailure \in {resp.log[i] : i \in 1..Len(resp.log)}) =>
    /\ resp.status = 500
    /\ "details" \notin resp.reply.has
    /\ resp.reply.details # KvFailure

\* C9: after a successful sign-out the session's subscription is released and
\* its user, credential and bookmark list are empty.
C9_SignOutReleasesAndClears ==
  \A s \in Sessions :
    stage[s] = "out" =>
      /\ ~subscribed[s]
      /\ user[s] = NoId /\ accessToken[s] = UNDEF /\ bookmarks[s] = <<>>

\* C10: a response that arrives after sign-out does not change the session's
\* bookmark list.
C10_LateResponseNotApplied ==
  [][\A s \in Sessions :
       (/\ stage[s] = "out"
        /\ \/ fetchReq[s].state = "answered" /\ fetchReq'[s].kind = "none"
           \/ opReq[s].state = "answered" /\ opReq'[s].kind = "none") =>
         bookmarks'[s] = bookmarks[s]]_vars

\* the step in which session s's subscription handles event e
Handles(s, e) == Deliver(s) /\ e \in inbox[s] /\ inbox'[s] = inbox[s] \ {e}

\* C11: applying an inbound Added event leaves the session's list as it is
\* when a bookmark with that id is already in it, and otherwise puts the
\* bookmark first, in front of the prior elements in their order.
C11_AddedEventDedupOrPrepend ==
  [][\A s \in Sessions : \A e \in inbox[s] :
       (Handles(s, e) /\ e.type = "added") =>
         bookmarks'[s] =
           IF \E i \in 1..Len(bookmarks[s]) : bookmarks[s][i].id = e.bookmark.id
             THEN bookmarks[s]
             ELSE <<e.bookmark>> \o bookmarks[s]]_vars

\* a joined session is about to handle an Added event for a bookmark that its
\* fetch has already put in its list, next to the saved one
C11_Witness ==
  \E s \in Sessions : \E e \in inbox[s] :
    /\ subscribed[s] /\ e.type = "added"
    /\ e.bookmark.id \in Ids(bookmarks[s])
    /\ Len(bookmarks[s]) = 2

\* C12: applying an inbound Deleted event removes the bookmark with the
\* matching id, keeps every other bookmark in its place, and leaves the list as
\* it is when the id is not in it.
C12_DeletedEventRemovesMatching ==
  [][\A s \in Sessions : \A e \in inbox[s] :
       (Handles(s, e) /\ e.type = "deleted") =>
         /\ bookmarks'[s] =
              SelectSeq(bookmarks[s], LAMBDA b : b.id # e.bookmarkId)
         /\ (\A i \in 1..Len(bookmarks[s]) : bookmarks[s][i].id # e.bookmarkId) =>
              bookmarks'[s] = bookmarks[s]]_vars

\* a joined session that lists two bookmarks is about to handle a Deleted
\* event for one of them
C12_Witness ==
  \E s \in Sessions : \E e \in inbox[s] :
    /\ subscribed[s] /\ e.type = "deleted"
    /\ e.bookmarkId \in Ids(bookmarks[s])
    /\ Len(bookmarks[s]) = 2

\* C13: with two signed-in, subscribed sessions of one user, when one creates
\* a bookmark and the Added event is delivered to the other, the other's list
\* grows by exactly the new bookmark, and it issues no list fetch.
C13_PeerListGrowsByOne ==
  [][\A s \in Sessions : \A e \in inbox[s] :
       (Handles(s, e) /\ e.type = "added" /\ stage[s] = "in") =>
         /\ Len(bookmarks'[s]) = Len(bookmarks[s]) + 1
         /\ Ids(bookmarks'[s]) = Ids(bookmarks[s]) \cup {e.bookmark.id}
         /\ fetchReq'[s] = fetchReq[s]]_vars

\* C13, amended: ... the other's list grows by exactly the new bookmark unless
\* its own fetch has already listed that bookmark, in which case the list
\* stays as it is; either way it issues no list fetch and the store is not
\* touched.
C13_PeerListGrowsUnlessListed ==
  [][\A s \in Sessions : \A e \in inbox[s] :
       (Handles(s, e) /\ e.type = "added" /\ stage[s] = "in") =>
         /\ e.bookmark.id \notin Ids(bookmarks[s]) =>
              Len(bookmarks'[s]) = Len(bookmarks[s]) + 1
         /\ e.bookmark.id \in Ids(bookmarks[s]) =>
              Len(bookmarks'[s]) = Len(bookmarks[s])
         /\ Ids(bookmarks'[s]) = Ids(bookmarks[s]) \cup {e.bookmark.id}
         /\ fetchReq'[s] = fetchReq[s]
         /\ store' = store]_vars

\* one click has been made, a create; no list fetch has been answered yet and
\* both sessions list the new bookmark: one by its own create, the other by
\* the Added event alone
C13_Witness ==
  /\ calls = 1
  /\ \A s \in Sessions :
       /\ stage[s] = "in" /\ subscribed[s]
       /\ fetchReq[s].state = "sent" /\ opReq[s].kind = "none"
       /\ inbox[s] = {}
       /\ Len(bookmarks[s]) = 1 /\ bookmarks[s][1].id = Uuid(nextId - 1)

\* no call is in flight and no joined session has an event left to handle
Quiescent ==
  \A s \in Sessions :
    /\ fetchReq[s].kind = "none" /\ opReq[s].kind = "none"
    /\ subscribed[s] => inbox[s] = {}
\* the ids of the records the store holds for a user
StoredIds(userId) == {r.id : r \in {x \in Records(store) : x.userId = userId}}

\* C14: sessions of one user converge without re-fetching: once no request is
\* in flight and every published event has been delivered to every subscribed
\* session, each signed-in, subscribed session lists exactly the ids stored
\* for the user.
C14_SessionsConverge ==
  Quiescent =>
    \A s \in Sessions :
      (stage[s] = "in" /\ subscribed[s]) =>
        Ids(bookmarks[s]) = StoredIds(SessionUser(s))

\* the step in which session s handles the failure of a call: a response that
\* is not OK, or a fetch() that rejects
HandlesFailure(s) ==
  \/ FetchDone(s) /\ fetchReq[s].status # 200
  \/ AddDone(s) /\ opReq[s].status # 200
  \/ DeleteDone(s) /\ opReq[s].status # 200
  \/ FetchThrows(s)
  \/ OpThrows(s)

\* C15: a failed list, create or delete call (a response that is not OK, or a
\* thrown network error) leaves the session's list exactly as it was and
\* publishes no event.
C15_FailedCallChangesNothing ==
  [][\A s \in Sessions :
       HandlesFailure(s) => (bookmarks' = bookmarks /\ inbox' = inbox)]_vars

\* both clicks of the run are over, one create was confirmed and the other
\* call failed (no second record, the first still stored); both sessions
\* still list the stored bookmark
C15_Witness ==
  /\ calls = 2 /\ nextId = 2
  /\ \A s \in Sessions :
       /\ stage[s] = "in" /\ opReq[s].kind = "none"
       /\ Len(bookmarks[s]) = 1
       /\ Ids(bookmarks[s]) = StoredIds(SessionUser(s))

\* the list shows what event e reports
Reflects(list, e) ==
  IF e.type = "added"
    THEN list # <<>> /\ Head(list) = e.bookmark
    ELSE e.bookmarkId \notin Ids(list)

\* C16: in the session that made a create or delete, the list mutation is
\* applied before the Sync Event of that action is sent: whenever an event
\* goes out to another session, the list of the session whose call it
\* completes already reflects the action.
C16_ListAppliedBeforeBroadcast ==
  [][\A t \in Sessions : \A e \in inbox'[t] \ inbox[t] :
       \E s \in Sessions \ {t} :
         /\ opReq[s].state = "answered" /\ opReq'[s].kind = "none"
         /\ Reflects(bookmarks'[s], e)]_vars

\* an Added event is on its way to a session that does not list the bookmark
\* yet, while the session that created it has it first in its list and its
\* call is over
C16_Witness ==
  \E t \in Sessions : \E e \in inbox[t] : \E s \in Sessions \ {t} :
    /\ e.type = "added" /\ e.bookmark.id \notin Ids(bookmarks[t])
    /\ opReq[s].kind = "none"
    /\ Reflects(bookmarks[s], e)

\* C17: when a create succeeds, the list right after the response is applied
\* is the new bookmark followed by the list as it was right before, whatever
\* events or fetch changed it while the call was in flight.
C17_CreatePrependsToCurrentList ==
  [][\A s \in Sessions :
       (AddDone(s) /\ opReq[s].status = 200) =>
         bookmarks'[s] = <<opReq[s].reply.bookmark>> \o bookmarks[s]]_vars

\* C18: when a delete succeeds, the list right after the response is applied
\* is the list as it was right before without the deleted id: nothing that
\* events or a fetch added or removed meanwhile is dropped or brought back.
C18_DeleteRemovesOnlyMatching ==
  [][\A s \in Sessions :
       (DeleteDone(s) /\ opReq[s].status = 200) =>
         bookmarks'[s] =
           SelectSeq(bookmarks[s], LAMBDA b : b.id # opReq[s].id)]_vars

\* the event that matches the confirmed call of session s
MatchingEvent(s) ==
  IF opReq[s].kind = "create"
    THEN [type |-> "added", bookmark |-> opReq[s].reply.bookmark,
          bookmarkId |-> NoId, userId |-> SessionUser(s)]
    ELSE [type |-> "deleted", bookmark |-> NoBookmark,
          bookmarkId |-> opReq[s].id, userId |-> SessionUser(s)]
\* the other sessions joined to the channel bookmarks:{userId} of session s
Listeners(s) ==
  {t \in Sessions \ {s} :
     subscribed[t] /\ channel[t] = <<"bookmarks:">> \o SessionUser(s)}

\* C19: a session publishes a Sync Event exactly when the API confirmed its
\* create or delete: the step in which it receives the OK response hands the
\* matching Added/Deleted event, with the session user's id, once to the
\* listeners of bookmarks:{userId} and to nobody else, and no other step
\* publishes anything.
C19_PublishesExactlyWhenConfirmed ==
  [][/\ \A s \in Sessions :
          ((AddDone(s) \/ DeleteDone(s)) /\ opReq[s].status = 200) =>
            \A t \in Sessions :
              inbox'[t] = IF t \in Listeners(s)
                            THEN inbox[t] \cup {MatchingEvent(s)}
                            ELSE inbox[t]
     /\ \A t \in Sessions : \A e \in inbox'[t] \ inbox[t] :
          \E s \in Sessions \ {t} :
            /\ opReq[s].state = "answered" /\ opReq[s].status = 200
            /\ opReq'[s].kind = "none"
            /\ e = MatchingEvent(s)]_vars

\* a Deleted event with the user's id is on its way to a session, the record
\* is gone from the store, and the session that deleted it has finished
C19_Witness ==
  \E t \in Sessions : \E e \in inbox[t] : \E s \in Sessions \ {t} :
    /\ e.type = "deleted" /\ e.userId = SessionUser(s)
    /\ e.bookmarkId \notin StoredIds(SessionUser(s))
    /\ e.bookmarkId \in {Uuid(n) : n \in 1..(nextId - 1)}
    /\ opReq[s].kind = "none" /\ stage[s] = "in"

\* newest first: createdAt never increases along the list
NewestFirst(list) ==
  \A i \in 1..Len(list) : \A j \in i..Len(list) :
    list[i].createdAt >= list[j].createdAt

\* C20: every session's list is ordered newest first in every reachable state.
C20_ListsNewestFirst == \A s \in Sessions : NewestFirst(bookmarks[s])

\* C21: in every reachable state of the store each record sits under the key
\* bookmarks:{userId}:{id} built from its own userId and id, and a record
\* once written is never replaced by different content: it stays as written
\* until it is deleted.
C21_KeyMatchesRecordAndNoOverwrite ==
  [][/\ \A k \in DOMAIN store' :
          k = <<"bookmarks:">> \o store'[k].userId \o <<":">> \o store'[k].id
     /\ \A k \in DOMAIN store :
          k \in DOMAIN store' => store'[k] = store[k]]_vars

\* a create whose body named an id and a userId of its own was confirmed
\* while the store already held a record: it now holds two
C21_Witness ==
  /\ resp.route = "create" /\ resp.status = 200
  /\ resp.body.id # NoId /\ resp.body.userId # NoId
  /\ Cardinality(DOMAIN store) = 2

\* C22: no session's list ever holds two entries with the same bookmark id,
\* whatever the interleaving of fetch responses, create and delete responses
\* and inbound events, repeated deliveries of an Added event included.
C22_NoDuplicateIds ==
  \A s \in Sessions :
    \A i \in 1..Len(bookmarks[s]) : \A j \in 1..Len(bookmarks[s]) :
      bookmarks[s][i].id = bookmarks[s][j].id => i = j

\* no fetch response has reached the session; it lists two bookmarks, and the
\* Added event that put the second of them there is still with the
\* transport, to be delivered again
C22_Witness ==
  \E s \in Sessions : \E e \in inbox[s] :
    /\ subscribed[s] /\ fetchReq[s].state = "sent"
    /\ e.type = "added"
    /\ Len(bookmarks[s]) = 2 /\ bookmarks[s][2] = e.bookmark

====
